---- MODULE Spec2Model ----
(***************************************************************************)
(* Model of looneygrep (src/src/lib.rs): run, search_file, search_contents,*)
(* highlight_all_matches and replace_all_matches.                          *)
(*                                                                         *)
(* A Rust str is modelled as the sequence of its UTF-8 bytes.  A byte is a *)
(* token: "a", "A", "b", "B" are one-byte characters; "I1","I2" are the    *)
(* two bytes of U+0130 (capital I with dot), whose to_lowercase() is the   *)
(* three bytes "i","d1","d2" ('i' followed by U+0307).  Byte offsets, char *)
(* boundaries and slice panics are those of Rust.                          *)
(***************************************************************************)
EXTENDS Integers, Sequences, FiniteSets, TLC

(***************************************************************************)
(* Bounds of the model.                                                    *)
(***************************************************************************)
MaxDocLines == 3      \* lines per document
MaxContext  == 1      \* largest --context value
MaxFiles    == 2      \* directory entries enumerated in --all mode
MaxLen      == 3      \* characters per line for the pure-function checks
MaxQuery    == 2      \* characters per query for the pure-function checks
MaxRepl     == 1      \* characters per replacement for the pure-function checks
max_lines   == 2      \* block cap of search_contents (1000 in the source), scaled
UsizeBits   == 4      \* width of usize (64 in the source), scaled

(***************************************************************************)
(* Strings.                                                                *)
(***************************************************************************)
None    == -1                    \* Option::None of str::find
Panic   == <<"!panic">>          \* the call panicked (slice out of range / not on a char boundary)
Diverge == <<"!diverge">>        \* the call never returns

IsStr(s) == s # Panic /\ s # Diverge

ContBytes == {"I2", "d2"}        \* UTF-8 continuation bytes

len(s) == Len(s)

is_char_boundary(s, idx) ==
    \/ idx = 0
    \/ idx = Len(s)
    \/ idx > 0 /\ idx < Len(s) /\ s[idx + 1] \notin ContBytes

\* &s[a..b]
Slice(s, a, b) ==
    IF a <= b /\ b <= Len(s) /\ is_char_boundary(s, a) /\ is_char_boundary(s, b)
    THEN SubSeq(s, a + 1, b)
    ELSE Panic

\* &s[a..]
SliceFrom(s, a) == Slice(s, a, Len(s))

\* String::push_str, with a panic in either operand propagated
Cat(a, b) ==
    IF a = Diverge \/ b = Diverge THEN Diverge
    ELSE IF a = Panic \/ b = Panic THEN Panic
    ELSE a \o b

MatchAt(hay, needle, p) ==
    /\ p + Len(needle) <= Len(hay)
    /\ \A k \in 1..Len(needle) : hay[p + k] = needle[k]

\* str::find: byte offset of the first occurrence, scanning from the left
RECURSIVE find_from(_, _, _)
find_from(hay, needle, p) ==
    IF p + Len(needle) > Len(hay) THEN None
    ELSE IF MatchAt(hay, needle, p) THEN p
    ELSE find_from(hay, needle, p + 1)

find(hay, needle) == find_from(hay, needle, 0)

contains(hay, needle) == find(hay, needle) # None

LowerByte(c) ==
    CASE c = "A" -> "a"
      [] c = "B" -> "b"
      [] c = "R" -> "r"
      [] c = "E" -> "e"
      [] c = "P" -> "p"
      [] c = "L" -> "l"
      [] c = "C" -> "c"
      [] c = "D" -> "d"
      [] OTHER   -> c

\* str::to_lowercase, character by character
RECURSIVE to_lowercase(_)
to_lowercase(s) ==
    IF s = <<>> THEN <<>>
    ELSE IF s[1] = "I1" /\ Len(s) >= 2
         THEN <<"i", "d1", "d2">> \o to_lowercase(SubSeq(s, 3, Len(s)))
         ELSE <<LowerByte(s[1])>> \o to_lowercase(Tail(s))

\* width in bytes of the character that starts s
CharWidth(s) == IF s[1] \in {"I1", "d1"} /\ Len(s) >= 2 THEN 2 ELSE 1

\* str::replace with an empty pattern: the replacement at every char boundary
RECURSIVE replace_empty(_, _)
replace_empty(s, to) ==
    IF s = <<>> THEN to
    ELSE to \o SubSeq(s, 1, CharWidth(s))
            \o replace_empty(SubSeq(s, CharWidth(s) + 1, Len(s)), to)

\* str::replace: leftmost-first, non-overlapping
RECURSIVE str_replace(_, _, _)
str_replace(s, from, to) ==
    IF from = <<>> THEN replace_empty(s, to)
    ELSE LET p == find(s, from)
         IN  IF p = None THEN s
             ELSE SubSeq(s, 1, p) \o to
                  \o str_replace(SubSeq(s, p + Len(from) + 1, Len(s)), from, to)

(***************************************************************************)
(* highlight_all_matches                                                   *)
(***************************************************************************)
HL_START == <<"ESC", "[", "3", "1", "m">>
HL_END   == <<"ESC", "[", "0", "m">>

\* the while-let loop of highlight_all_matches; search_start = last throughout
RECURSIVE highlight_loop(_, _, _, _, _, _)
highlight_loop(line, line_cmp, query, query_cmp, last, result) ==
    LET rest == SliceFrom(line_cmp, last)
    IN  IF rest = Panic THEN Panic
        ELSE LET pos == find(rest, query_cmp)
             IN  IF pos = None THEN Cat(result, SliceFrom(line, last))
                 ELSE LET abs_pos == last + pos
                          pre     == Slice(line, last, abs_pos)
                          mid     == Slice(line, abs_pos, abs_pos + len(query))
                      IN  IF pre = Panic \/ mid = Panic THEN Panic
                          ELSE highlight_loop(line, line_cmp, query, query_cmp,
                                              abs_pos + len(query),
                                              result \o pre \o HL_START \o mid \o HL_END)

\* variant: the case mode is not honoured
highlight_case_sensitive(line, query, ignore_case) ==
    IF query = <<>> THEN line
    ELSE highlight_loop(line, line, query, query, 0, <<>>)

highlight_all_matches(line, query, ignore_case) ==
    IF query = <<>> THEN line
    ELSE IF ignore_case
         THEN highlight_loop(line, to_lowercase(line), query, to_lowercase(query), 0, <<>>)
         ELSE highlight_loop(line, line, query, query, 0, <<>>)

(***************************************************************************)
(* replace_all_matches                                                     *)
(***************************************************************************)
\* the while-let loop of the ignore_case branch; search_start = last throughout
RECURSIVE replace_loop(_, _, _, _, _, _, _)
replace_loop(line, line_lower, query, query_lower, replacement, last, result) ==
    LET rest == SliceFrom(line_lower, last)
    IN  IF rest = Panic THEN Panic
        ELSE LET pos == find(rest, query_lower)
             IN  IF pos = None THEN Cat(result, SliceFrom(line, last))
                 ELSE IF len(query) = 0 THEN Diverge   \* last never advances
                 ELSE LET abs_pos == last + pos
                          pre     == Slice(line, last, abs_pos)
                      IN  IF pre = Panic THEN Panic
                          ELSE replace_loop(line, line_lower, query, query_lower, replacement,
                                            abs_pos + len(query),
                                            result \o pre \o replacement)

\* variant: only the first occurrence is replaced
replace_first_match(line, query, replacement, ignore_case) ==
    LET p == IF ignore_case THEN find(to_lowercase(line), to_lowercase(query))
                            ELSE find(line, query)
    IN  IF p = None THEN line
        ELSE Cat(Cat(Slice(line, 0, p), replacement), SliceFrom(line, p + Len(query)))

replace_all_matches(line, query, replacement, ignore_case) ==
    IF ignore_case
    THEN replace_loop(line, to_lowercase(line), query, to_lowercase(query), replacement, 0, <<>>)
    ELSE str_replace(line, query, replacement)

(***************************************************************************)
(* Inputs of the model.                                                    *)
(***************************************************************************)
REPLACED == <<"<", "R", "E", "P", "L", "A", "C", "E", "D", ">">>

L_b   == <<"b">>                        \* never matches "ab"
L_ab  == <<"a", "b">>                   \* matches "ab" in both case modes
L_aB  == <<"a", "B">>                   \* matches "ab" only when ignore_case
L_Iab == <<"I1", "I2", "a", "b">>       \* U+0130 then "ab": lowercase is one byte longer

LineSet == {L_b, L_ab, L_aB, L_Iab}
Queries == {<<>>, <<"a", "b">>}

RECURSIVE SeqsUpTo(_, _)
SeqsUpTo(S, n) ==
    IF n = 0 THEN {<<>>}
    ELSE LET shorter == SeqsUpTo(S, n - 1)
         IN  shorter \cup {<<x>> \o s : x \in S, s \in {t \in shorter : Len(t) = n - 1}}

Docs == SeqsUpTo(LineSet, MaxDocLines)

Chars == {<<"a">>, <<"A">>, <<"b">>, <<"I1", "I2">>}

RECURSIVE Flatten(_)
Flatten(ss) == IF ss = <<>> THEN <<>> ELSE Head(ss) \o Flatten(Tail(ss))

StrsUpTo(n) == {Flatten(cs) : cs \in SeqsUpTo(Chars, n)}

\* what read_line can hand back: a line of text, or an I/O error
IoErr  == "!ioerr"
Inputs == {"y", "n", " all ", "quit", "Y", ""}

\* input.trim()
Trim(inp) == IF inp = " all " THEN "all" ELSE inp

(***************************************************************************)
(* Documents: str::lines and [String]::join("\n").                         *)
(***************************************************************************)
LF == "LF"
CR == "CR"

StripCR(s) == IF s # <<>> /\ s[Len(s)] = CR THEN SubSeq(s, 1, Len(s) - 1) ELSE s

\* contents.lines()
RECURSIVE SplitLines(_)
SplitLines(s) ==
    IF s = <<>> THEN <<>>
    ELSE LET p == find(s, <<LF>>)
         IN  IF p = None THEN <<s>>
             ELSE <<StripCR(SubSeq(s, 1, p))>> \o SplitLines(SubSeq(s, p + 2, Len(s)))

\* lines.join("\n")
RECURSIVE JoinLines(_)
JoinLines(ls) ==
    IF ls = <<>> THEN <<>>
    ELSE IF Len(ls) = 1 THEN ls[1]
    ELSE ls[1] \o <<LF>> \o JoinLines(Tail(ls))

\* the contents a readable source can have: an empty file, or lines each ended by "\n"
Contents == {IF d = <<>> THEN <<>> ELSE JoinLines(d) \o <<LF>> : d \in Docs}

(***************************************************************************)
(* State.                                                                  *)
(***************************************************************************)
VARIABLES
    config,        \* Config: query, ignore_case, replace, url, context, search_all
    overflow_checks, \* the build panics on integer overflow (debug) or wraps (release)
    allBefore,     \* an earlier session of this run was answered "all" (history)
    pc,            \* where run / search_contents stands
    result,        \* "running", "ok", "err", "panic", "hang"
    err,           \* kind of the error run returned, "" if none
    entries,       \* directory entries taken from read_dir so far
    sessUrl,       \* config.url.is_some() as search_contents sees it
    disk,          \* contents of the file backing the current session
    orig,          \* contents read at the start of the current session
    lines,         \* lines: Vec<String>
    matches,       \* matches: Vec<(usize, String)>
    printed,       \* printed: Vec<bool>
    lines_printed, \* lines_printed
    dk,            \* position of the display loop in matches
    mi,            \* position of the replace loop in matches
    replace_all,   \* replace_all
    changed,       \* changed
    out,           \* what the current session printed, in order
    input,         \* what read_line returned last in this session, NoInput before
    answered,      \* the trimmed answers read in this session (history)
    written,       \* fs::write has touched the file in this session (history)
    replaced,      \* line indices handed to replace_all_matches in this session (history)
    fn             \* inputs and results of the pure-function checks

vars == <<config, overflow_checks, allBefore, pc, result, err, entries, sessUrl, disk, orig, lines, matches, printed,
          lines_printed, dk, mi, replace_all, changed, out, input, answered, written,
          replaced, fn>>

sessVars == <<sessUrl, disk, orig, lines, matches, printed, lines_printed, dk, mi,
              replace_all, changed, out, input, answered, written, replaced>>

Ev(k, i, t) == [k |-> k, i |-> i, t |-> t]

NoInput == "-"

NoFn == [pc |-> "off"]

Configs ==
    [query : Queries, ignore_case : BOOLEAN, replace : BOOLEAN, url : BOOLEAN,
     context : 0..MaxContext, search_all : BOOLEAN]

\* no sum of Spec's line indices and contexts reaches the width of usize
Init ==
    /\ config \in Configs
    /\ overflow_checks = FALSE
    /\ allBefore = FALSE
    /\ pc = "run"
    /\ result = "running"
    /\ err = ""
    /\ entries = 0
    /\ sessUrl = FALSE
    /\ disk = <<>>
    /\ orig = <<>>
    /\ lines = <<>>
    /\ matches = <<>>
    /\ printed = <<>>
    /\ lines_printed = 0
    /\ dk = 1
    /\ mi = 1
    /\ replace_all = FALSE
    /\ changed = FALSE
    /\ out = <<>>
    /\ input = NoInput
    /\ answered = {}
    /\ written = FALSE
    /\ replaced = {}
    /\ fn = NoFn

(***************************************************************************)
(* search_contents, lines 177-198: split, find the matches, start preview. *)
(***************************************************************************)
IsMatch(line, query, ignore_case) ==
    IF ignore_case
    THEN contains(to_lowercase(line), to_lowercase(query))
    ELSE contains(line, query)

\* variant: every matching line is collected twice
Collected_twice(i, l) == <<[i |-> i, line |-> l], [i |-> i, line |-> l]>>

\* .map(|(i, l)| (i, l.clone())): one entry, the index and a snapshot of the text
Collected(i, l) == <<[i |-> i, line |-> l]>>

\* variant: the matches are collected last line first
RECURSIVE FindMatches_rev(_, _, _, _)
FindMatches_rev(ls, k, query, ignore_case) ==
    IF k > Len(ls) THEN <<>>
    ELSE FindMatches_rev(ls, k + 1, query, ignore_case)
         \o (IF IsMatch(ls[k], query, ignore_case)
             THEN Collected(k - 1, ls[k]) ELSE <<>>)

RECURSIVE FindMatches(_, _, _, _)
FindMatches(ls, k, query, ignore_case) ==
    IF k > Len(ls) THEN <<>>
    ELSE (IF IsMatch(ls[k], query, ignore_case)
          THEN Collected(k - 1, ls[k]) ELSE <<>>)
         \o FindMatches(ls, k + 1, query, ignore_case)

\* variant: the apply-all flag outlives the session that set it
BeginSession_shared(contents, url) ==
    LET ls == SplitLines(contents)
        ms == FindMatches(ls, 1, config.query, config.ignore_case)
    IN  /\ sessUrl' = url
        /\ disk' = contents
        /\ orig' = contents
        /\ lines' = ls
        /\ matches' = ms
        /\ printed' = [k \in 1..Len(ls) |-> FALSE]
        /\ lines_printed' = 0
        /\ dk' = 1
        /\ mi' = 1
        /\ replace_all' = allBefore
        /\ changed' = FALSE
        /\ out' = <<Ev("preview", 0, <<>>)>>
        /\ input' = NoInput
        /\ answered' = {}
        /\ written' = FALSE
        /\ replaced' = {}
        /\ pc' = IF ms = <<>> THEN "gate" ELSE "display"

BeginSession(contents, url) ==
    LET ls == SplitLines(contents)
        ms == FindMatches(ls, 1, config.query, config.ignore_case)
    IN  /\ sessUrl' = url
        /\ disk' = contents
        /\ orig' = contents
        /\ lines' = ls
        /\ matches' = ms
        /\ printed' = [k \in 1..Len(ls) |-> FALSE]
        /\ lines_printed' = 0
        /\ dk' = 1
        /\ mi' = 1
        /\ replace_all' = FALSE
        /\ changed' = FALSE
        /\ out' = <<Ev("preview", 0, <<>>)>>
        /\ input' = NoInput
        /\ answered' = {}
        /\ written' = FALSE
        /\ replaced' = {}
        /\ pc' = IF ms = <<>> THEN "gate" ELSE "display"

\* run returns Err(kind)
Fail(kind) ==
    /\ pc' = "exit"
    /\ result' = "err"
    /\ err' = kind

\* search_contents returns Ok(())
SessionOk == pc' = "return" /\ UNCHANGED <<result, err>>

\* back in run: the next directory entry (the session's locals are gone), or Ok(())
SessionReturn ==
    /\ pc = "return"
    /\ IF config.search_all
       THEN /\ pc' = "entries"
            /\ sessUrl' = FALSE
            /\ disk' = <<>>
            /\ orig' = <<>>
            /\ lines' = <<>>
            /\ matches' = <<>>
            /\ printed' = <<>>
            /\ lines_printed' = 0
            /\ dk' = 1
            /\ mi' = 1
            /\ replace_all' = FALSE
            /\ changed' = FALSE
            /\ out' = <<>>
            /\ input' = NoInput
            /\ answered' = {}
            /\ written' = FALSE
            /\ replaced' = {}
            /\ UNCHANGED result
       ELSE /\ pc' = "exit" /\ result' = "ok"
            /\ UNCHANGED sessVars
    /\ allBefore' = (allBefore \/ "all" \in answered)
    /\ UNCHANGED <<config, overflow_checks, err, entries, fn>>

(***************************************************************************)
(* run, lines 136-168, and search_file, lines 171-174.                     *)
(***************************************************************************)
\* not --all, --url given: fetch_url(url)?, then search_contents
RunUrl ==
    /\ pc = "run" /\ ~config.search_all /\ config.url
    /\ \/ /\ Fail("RetrievalError")
          /\ UNCHANGED sessVars
       \/ /\ \E body \in Contents : BeginSession(body, TRUE)
          /\ UNCHANGED <<result, err>>
    /\ UNCHANGED <<config, overflow_checks, allBefore, entries, fn>>

\* not --all, no --url: fs::read_to_string(&config.file_path)?, then search_contents
RunFile ==
    /\ pc = "run" /\ ~config.search_all /\ ~config.url
    /\ \/ /\ Fail("ReadError")
          /\ UNCHANGED sessVars
       \/ /\ \E contents \in Contents : BeginSession(contents, FALSE)
          /\ UNCHANGED <<result, err>>
    /\ UNCHANGED <<config, overflow_checks, allBefore, entries, fn>>

\* --all: fs::read_dir(".")?
RunDir ==
    /\ pc = "run" /\ config.search_all
    /\ \/ Fail("DirError")
       \/ pc' = "entries" /\ UNCHANGED <<result, err>>
    /\ UNCHANGED <<config, overflow_checks, allBefore, entries, fn>>
    /\ UNCHANGED sessVars

\* for entry in entries: the iterator is exhausted, return Ok(())
DirEnd ==
    /\ pc = "entries"
    /\ pc' = "exit" /\ result' = "ok"
    /\ UNCHANGED <<config, overflow_checks, allBefore, err, entries, fn>>
    /\ UNCHANGED sessVars

\* for entry in entries: entry? fails
DirEntryErr ==
    /\ pc = "entries" /\ entries < MaxFiles
    /\ Fail("DirError")
    /\ entries' = entries + 1
    /\ UNCHANGED <<config, overflow_checks, allBefore, fn>>
    /\ UNCHANGED sessVars

\* for entry in entries: path.is_file() is false
DirSkip ==
    /\ pc = "entries" /\ entries < MaxFiles
    /\ entries' = entries + 1
    /\ UNCHANGED <<config, overflow_checks, allBefore, pc, result, err, fn>>
    /\ UNCHANGED sessVars

\* how search_file(&mut file_config)? ends when read_to_string fails (line 153)
ReadFailed == Fail("ReadError")

\* for entry in entries: a regular file, search_file(&mut file_config)?
DirFile ==
    /\ pc = "entries" /\ entries < MaxFiles
    /\ entries' = entries + 1
    /\ \/ /\ ReadFailed
          /\ UNCHANGED sessVars
       \/ /\ \E contents \in Contents : BeginSession(contents, FALSE)
          /\ UNCHANGED <<result, err>>
    /\ UNCHANGED <<config, overflow_checks, allBefore, fn>>

(***************************************************************************)
(* search_contents, lines 200-221: the preview loop, one match per step.   *)
(***************************************************************************)
saturating_sub(a, b) == IF a >= b THEN a - b ELSE 0

\* usize, scaled to UsizeBits bits
UsizeMax == 2 ^ UsizeBits - 1

\* a + b in usize: None where the build panics on overflow, else the wrapped sum
usize_add(a, b) ==
    IF a + b > UsizeMax
    THEN IF overflow_checks THEN None ELSE (a + b) % (UsizeMax + 1)
    ELSE a + b

Min(a, b) == IF a <= b THEN a ELSE b

\* how the line at line_idx is rendered in the window of the match at i (lines 206-211)
RenderLine(line_idx, i) ==
    IF line_idx = i
    THEN highlight_all_matches(lines[line_idx + 1], config.query, config.ignore_case)
    ELSE lines[line_idx + 1]

\* for line_idx in start..end (lines 203-214); pr and o are printed and the output so far
\* variant: the printed marker is not consulted
AlreadyPrinted_never(pr, line_idx) == FALSE

\* if !printed[line_idx] (line 204)
AlreadyPrinted(pr, line_idx) == pr[line_idx + 1]

RECURSIVE Window(_, _, _, _, _)
Window(line_idx, end, i, pr, o) ==
    IF line_idx >= end THEN [printed |-> pr, out |-> o, panic |-> FALSE]
    ELSE IF AlreadyPrinted(pr, line_idx) THEN Window(line_idx + 1, end, i, pr, o)
    ELSE LET text == RenderLine(line_idx, i)
         IN  IF text = Panic THEN [printed |-> pr, out |-> o, panic |-> TRUE]
             ELSE Window(line_idx + 1, end, i,
                         [pr EXCEPT ![line_idx + 1] = TRUE],
                         Append(o, Ev("line", line_idx, text)))

\* what follows the window of a match (line 215)
AfterWindow == <<Ev("sep", 0, <<>>)>>

\* variant: the cap is tested with > instead of >=
CapReached_late(n) == n > max_lines

\* if lines_printed >= max_lines (line 217)
CapReached(n) == n >= max_lines

\* one iteration of the preview loop (lines 200-221) for the match at position k, with
\* pr, o, n the values of printed, the output and lines_printed before it
ShowMatch(k, pr, o, n) ==
    LET i     == matches[k].i
        start == saturating_sub(i, config.context)
        sum   == usize_add(i + 1, config.context)
        end   == Min(sum, Len(lines))
        w     == Window(start, end, i, pr, o)
    IN  IF sum = None
        THEN [printed |-> pr, out |-> o, n |-> n, panic |-> TRUE, stop |-> TRUE]
        ELSE IF w.panic
        THEN [printed |-> w.printed, out |-> w.out, n |-> n, panic |-> TRUE, stop |-> TRUE]
        ELSE IF CapReached(n + 1)
        THEN [printed |-> w.printed,
              out |-> w.out \o AfterWindow \o <<Ev("truncated", 0, <<>>)>>,
              n |-> n + 1, panic |-> FALSE, stop |-> TRUE]
        ELSE [printed |-> w.printed, out |-> w.out \o AfterWindow,
              n |-> n + 1, panic |-> FALSE, stop |-> FALSE]

DisplayStep ==
    /\ pc = "display" /\ dk <= Len(matches)
    /\ LET s == ShowMatch(dk, printed, out, lines_printed)
       IN  /\ printed' = s.printed
           /\ out' = s.out
           /\ lines_printed' = s.n
           /\ IF s.panic
              THEN /\ pc' = "exit" /\ result' = "panic"
                   /\ UNCHANGED dk
              ELSE /\ dk' = dk + 1
                   /\ pc' = IF s.stop \/ dk + 1 > Len(matches) THEN "gate" ELSE "display"
                   /\ UNCHANGED result
    /\ UNCHANGED <<config, overflow_checks, allBefore, err, entries, fn, sessUrl, disk, orig, lines, matches, mi,
                   replace_all, changed, input, answered, written, replaced>>

(***************************************************************************)
(* search_contents, lines 223-229 and 261-265.                             *)
(***************************************************************************)
TypeNote == Ev("typenote", 0, <<>>)

\* variant: the URL check is missing
Refuses_never == FALSE

\* if config.replace { if config.url.is_some() { warning; return Ok(()) } ... }
Refuses == sessUrl

Gate ==
    /\ pc = "gate"
    /\ IF config.replace
       THEN IF Refuses
            THEN /\ out' = Append(out, Ev("warning", 0, <<>>))
                 /\ SessionOk
            ELSE /\ pc' = IF matches = <<>> THEN "save" ELSE "prompt"
                 /\ UNCHANGED <<out, result, err>>
       ELSE /\ out' = IF sessUrl THEN out ELSE Append(out, TypeNote)
            /\ SessionOk
    /\ UNCHANGED <<config, overflow_checks, allBefore, entries, fn, sessUrl, disk, orig, lines, matches, printed,
                   lines_printed, dk, mi, replace_all, changed, input, answered, written,
                   replaced>>

(***************************************************************************)
(* search_contents, lines 229-250: the replace loop, one match per step.   *)
(***************************************************************************)
\* variant: "all" replaces this match only
Decide_all_once(answer) ==
    CASE answer = "y"    -> "apply"
      [] answer = "all"  -> "apply"
      [] answer = "n"    -> "skip"
      [] answer = "quit" -> "quit"
      [] OTHER           -> "skip"

\* variant: "quit" skips this match only
Decide_quit_skips(answer) ==
    CASE answer = "y"    -> "apply"
      [] answer = "all"  -> "all"
      [] answer = "n"    -> "skip"
      [] answer = "quit" -> "skip"
      [] OTHER           -> "skip"

\* variant: an unrecognized answer falls through to the replacement
Decide_other_applies(answer) ==
    CASE answer = "y"    -> "apply"
      [] answer = "all"  -> "all"
      [] answer = "n"    -> "skip"
      [] answer = "quit" -> "quit"
      [] OTHER           -> "apply"

\* match input.trim() { ... } (lines 240-246)
Decide(answer) ==
    CASE answer = "y"    -> "apply"
      [] answer = "all"  -> "all"
      [] answer = "n"    -> "skip"
      [] answer = "quit" -> "quit"
      [] OTHER           -> "skip"

LoopNext == IF mi + 1 > Len(matches) THEN "save" ELSE "prompt"

\* lines 248-249 for the match at position mi
Apply ==
    LET i   == matches[mi].i
        new == replace_all_matches(lines[i + 1], config.query, REPLACED, config.ignore_case)
    IN  /\ replaced' = replaced \cup {i}
        /\ IF new = Panic
           THEN /\ pc' = "exit" /\ result' = "panic"
                /\ UNCHANGED <<lines, changed, mi, err>>
           ELSE IF new = Diverge
           THEN /\ pc' = "hung" /\ result' = "hang"
                /\ UNCHANGED <<lines, changed, mi, err>>
           ELSE /\ lines' = [lines EXCEPT ![i + 1] = new]
                /\ changed' = TRUE
                /\ mi' = mi + 1
                /\ pc' = LoopNext
                /\ UNCHANGED <<result, err>>

\* if !replace_all { ... } (line 231)
Prompts == ~replace_all

\* an iteration with replace_all unset: prompt, read the answer, act on it
PromptAsk ==
    /\ pc = "prompt" /\ mi <= Len(matches) /\ Prompts
    /\ LET i == matches[mi].i
           h == highlight_all_matches(matches[mi].line, config.query, config.ignore_case)
       IN  IF h = Panic
           THEN /\ pc' = "exit" /\ result' = "panic"
                /\ UNCHANGED <<lines, changed, mi, err, out, input, answered, replace_all,
                               replaced>>
           ELSE \E inp \in Inputs \cup {IoErr} :
                /\ out' = Append(out, Ev("prompt", i, h))
                /\ input' = inp
                /\ IF inp = IoErr
                   THEN /\ Fail("IoError")
                        /\ UNCHANGED <<lines, changed, mi, answered, replace_all, replaced>>
                   ELSE LET d == Decide(Trim(inp))
                        IN  /\ answered' = answered \cup {Trim(inp)}
                            /\ CASE d = "apply" -> Apply /\ UNCHANGED replace_all
                                 [] d = "all"   -> Apply /\ replace_all' = TRUE
                                 [] d = "quit"  -> /\ pc' = "save"
                                                   /\ UNCHANGED <<lines, changed, mi, result,
                                                                  err, replace_all, replaced>>
                                 [] OTHER       -> /\ mi' = mi + 1
                                                   /\ pc' = LoopNext
                                                   /\ UNCHANGED <<lines, changed, result, err,
                                                                  replace_all, replaced>>
    /\ UNCHANGED <<config, overflow_checks, allBefore, entries, fn, sessUrl, disk, orig, matches, printed,
                   lines_printed, dk, written>>

\* an iteration with replace_all set: no prompt
ReplaceRest ==
    /\ pc = "prompt" /\ mi <= Len(matches) /\ ~Prompts
    /\ Apply
    /\ UNCHANGED <<config, overflow_checks, allBefore, entries, fn, sessUrl, disk, orig, matches, printed,
                   lines_printed, dk, written, out, input, answered, replace_all>>

(***************************************************************************)
(* search_contents, lines 252-265: write the file if anything changed.     *)
(***************************************************************************)
\* variant: the file is written whether or not anything changed
NeedsWrite_always == TRUE

\* if changed { fs::write(...) }
NeedsWrite == changed

\* fs::write opens the file for writing, which truncates it
Save ==
    /\ pc = "save"
    /\ IF NeedsWrite
       THEN \/ /\ Fail("WriteError")
               /\ UNCHANGED <<disk, written, out>>
            \/ /\ disk' = <<>>
               /\ written' = TRUE
               /\ pc' = "writing"
               /\ UNCHANGED <<result, err, out>>
       ELSE /\ out' = out \o <<Ev("none", 0, <<>>), TypeNote>>
            /\ SessionOk
            /\ UNCHANGED <<disk, written>>
    /\ UNCHANGED <<config, overflow_checks, allBefore, entries, fn, sessUrl, orig, lines, matches, printed,
                   lines_printed, dk, mi, replace_all, changed, input, answered, replaced>>

\* fs::write writes lines.join("\n"), or fails part-way
WriteData ==
    /\ pc = "writing"
    /\ LET data == JoinLines(lines)
       IN  \/ /\ disk' = data
              /\ out' = out \o <<Ev("saved", 0, <<>>), TypeNote>>
              /\ SessionOk
           \/ /\ \E n \in {0, Len(data) \div 2} : disk' = SubSeq(data, 1, n)
              /\ Fail("WriteError")
              /\ UNCHANGED out
    /\ UNCHANGED <<config, overflow_checks, allBefore, entries, fn, sessUrl, orig, lines, matches, printed,
                   lines_printed, dk, mi, replace_all, changed, input, answered, written,
                   replaced>>

Next ==
    \/ RunUrl
    \/ RunFile
    \/ RunDir
    \/ DirEnd
    \/ DirEntryErr
    \/ DirSkip
    \/ DirFile
    \/ SessionReturn
    \/ DisplayStep
    \/ Gate
    \/ PromptAsk
    \/ ReplaceRest
    \/ Save
    \/ WriteData

Spec == Init /\ [][Next]_vars

(***************************************************************************)
(* The preview of one file for every context radius a usize can hold, in   *)
(* a build that panics on integer overflow and in one that wraps.          *)
(***************************************************************************)
ConfigsDisplay ==
    [query : Queries, ignore_case : BOOLEAN, replace : {FALSE}, url : {FALSE},
     context : (0..MaxContext) \cup {UsizeMax - 1, UsizeMax}, search_all : {FALSE}]

InitDisplay ==
    /\ config \in ConfigsDisplay
    /\ overflow_checks \in BOOLEAN
    /\ allBefore = FALSE
    /\ pc = "run"
    /\ result = "running"
    /\ err = ""
    /\ entries = 0
    /\ sessUrl = FALSE
    /\ disk = <<>>
    /\ orig = <<>>
    /\ lines = <<>>
    /\ matches = <<>>
    /\ printed = <<>>
    /\ lines_printed = 0
    /\ dk = 1
    /\ mi = 1
    /\ replace_all = FALSE
    /\ changed = FALSE
    /\ out = <<>>
    /\ input = NoInput
    /\ answered = {}
    /\ written = FALSE
    /\ replaced = {}
    /\ fn = NoFn

NextDisplay ==
    \/ RunFile
    \/ DisplayStep
    \/ Gate
    \/ SessionReturn

SpecDisplay == InitDisplay /\ [][NextDisplay]_vars

(***************************************************************************)
(* The pure functions on their own: replace_all_matches and                *)
(* highlight_all_matches applied to every line, query and replacement      *)
(* within the bounds.                                                      *)
(***************************************************************************)
FnInputs ==
    [pc : {"start"}, L : StrsUpTo(MaxLen), Q : StrsUpTo(MaxQuery), R : StrsUpTo(MaxRepl),
     ic : BOOLEAN, r1 : {<<>>}, r2 : {<<>>}, h : {<<>>}]

InitFn ==
    /\ config = [query |-> <<>>, ignore_case |-> FALSE, replace |-> FALSE, url |-> FALSE,
                 context |-> 0, search_all |-> FALSE]
    /\ overflow_checks = FALSE
    /\ allBefore = FALSE
    /\ pc = "fn"
    /\ result = "running"
    /\ err = ""
    /\ entries = 0
    /\ sessUrl = FALSE
    /\ disk = <<>>
    /\ orig = <<>>
    /\ lines = <<>>
    /\ matches = <<>>
    /\ printed = <<>>
    /\ lines_printed = 0
    /\ dk = 1
    /\ mi = 1
    /\ replace_all = FALSE
    /\ changed = FALSE
    /\ out = <<>>
    /\ input = NoInput
    /\ answered = {}
    /\ written = FALSE
    /\ replaced = {}
    /\ fn \in FnInputs

nonFn == <<config, overflow_checks, allBefore, pc, result, err, entries, sessUrl, disk, orig, lines, matches, printed,
           lines_printed, dk, mi, replace_all, changed, out, input, answered, written,
           replaced>>

\* replace_all_matches(L, Q, R, ic)
FnReplace ==
    /\ fn.pc = "start"
    /\ fn' = [fn EXCEPT !.pc = "once",
                        !.r1 = replace_all_matches(fn.L, fn.Q, fn.R, fn.ic)]
    /\ UNCHANGED nonFn

\* replace_all_matches applied to its own result
FnReplaceAgain ==
    /\ fn.pc = "once" /\ IsStr(fn.r1)
    /\ fn' = [fn EXCEPT !.pc = "twice",
                        !.r2 = replace_all_matches(fn.r1, fn.Q, fn.R, fn.ic)]
    /\ UNCHANGED nonFn

\* highlight_all_matches(L, Q, ic)
FnHighlight ==
    /\ fn.pc = "start"
    /\ fn' = [fn EXCEPT !.pc = "shown",
                        !.h = highlight_all_matches(fn.L, fn.Q, fn.ic)]
    /\ UNCHANGED nonFn

\* highlight_all_matches of the line that replace_all_matches was applied to
FnShowReplaced ==
    /\ fn.pc = "once"
    /\ fn' = [fn EXCEPT !.pc = "both",
                        !.h = highlight_all_matches(fn.L, fn.Q, fn.ic)]
    /\ UNCHANGED nonFn

NextFn ==
    \/ FnReplace
    \/ FnReplaceAgain
    \/ FnHighlight
    \/ FnShowReplaced

SpecFn == InitFn /\ [][NextFn]_vars

(***************************************************************************)
(* Properties.                                                             *)
(***************************************************************************)
Bytes(s) == {s[k] : k \in 1..Len(s)}

\* the form in which the active case mode compares a string
Folded(s, ignore_case) == IF ignore_case THEN to_lowercase(s) ELSE s

\* to_lowercase keeps the byte offset of every character of s
CaseStable(s) ==
    \A k \in 0..Len(s) :
        is_char_boundary(s, k) => Len(to_lowercase(SubSeq(s, 1, k))) = k

C4_Disjoint ==
    /\ fn.Q # <<>>
    /\ fn.R # <<>>
    /\ Bytes(Folded(fn.R, fn.ic)) \cap Bytes(Folded(fn.Q, fn.ic)) = {}
    /\ fn.ic => (CaseStable(fn.L) /\ CaseStable(fn.Q) /\ CaseStable(fn.R))

NumPrompts(o) == Cardinality({p \in 1..Len(o) : o[p].k = "prompt"})

\* line index of the match prompted last
LastPromptLine ==
    LET ps == {p \in 1..Len(out) : out[p].k = "prompt"}
    IN  out[CHOOSE p \in ps : \A r \in ps : r <= p].i

\* position in matches of the match at line index i
PosOf(i) == CHOOSE q \in 1..Len(matches) : matches[q].i = i

IsMatchLine(i) == \E q \in 1..Len(matches) : matches[q].i = i

\* search_contents has returned Ok(()) and its state is still in view
Finished == pc = "return" \/ (pc = "exit" /\ result = "ok" /\ ~config.search_all)

ReplacedText(q) ==
    replace_all_matches(matches[q].line, config.query, REPLACED, config.ignore_case)

Applied == answered \cap {"y", "all"} # {}

\* the output of the whole preview loop, from the session's lines and matches
RECURSIVE Preview(_, _, _, _)
Preview(k, pr, o, n) ==
    IF k > Len(matches) THEN o
    ELSE LET s == ShowMatch(k, pr, o, n)
         IN  IF s.stop THEN s.out ELSE Preview(k + 1, s.printed, s.out, s.n)

ExpectedPreview ==
    Preview(1, [k \in 1..Len(lines) |-> FALSE], <<Ev("preview", 0, <<>>)>>, 0)

\* C1: in --all mode a file that cannot be read does not end the run: the
\* coordinator goes on to the later files.
C1_BatchSurvivesReadError ==
    ~(config.search_all /\ pc = "exit" /\ err = "ReadError")

\* C2: no block separator is printed between two lines of one continuous block,
\* that is between the windows of two matches that overlap or are adjacent.
C2_NoSeparatorInsideBlock ==
    config.query # <<>>
    => \A p \in 2..(Len(out) - 1) :
          (out[p].k = "sep" /\ out[p - 1].k = "line" /\ out[p + 1].k = "line")
          => out[p + 1].i > out[p - 1].i + 1

\* C3: every matching line in the preview is printed with its occurrences of the
\* query highlighted, also when it lies in the context window of an earlier match.
C3_MatchLinesHighlighted ==
    \A p \in 1..Len(out) :
        (out[p].k = "line" /\ IsMatchLine(out[p].i))
        => out[p].t = highlight_all_matches(matches[PosOf(out[p].i)].line,
                                            config.query, config.ignore_case)

\* C5: with an empty query there are no matches: nothing is shown as a match,
\* no prompt is issued and no line changes.
C5_EmptyQueryNoMatches ==
    config.query = <<>>
    => /\ matches = <<>>
       /\ \A p \in 1..Len(out) : out[p].k \notin {"line", "prompt"}
       /\ ~changed

C6_State ==
    "all" \in answered
    => /\ \A q \in PosOf(LastPromptLine)..(mi - 1) :
            /\ matches[q].i \in replaced
            /\ lines[matches[q].i + 1] = ReplacedText(q)
       /\ pc \in {"save", "writing", "return"} => mi = Len(matches) + 1

\* C6: once "all" is answered at a match, no further prompt is issued in the
\* session, and that match and every later match is replaced.
C6_AllIsSticky ==
    /\ []C6_State
    /\ [][("all" \in answered /\ "all" \in answered')
          => NumPrompts(out') = NumPrompts(out)]_vars

C6_Witness ==
    /\ config.query # <<>>
    /\ "all" \in answered /\ pc = "return" /\ written
    /\ PosOf(LastPromptLine) > 1
    /\ PosOf(LastPromptLine) < Len(matches)
    /\ \A q \in PosOf(LastPromptLine)..Len(matches) : matches[q].i \in replaced

C7_State ==
    "quit" \in answered
    => /\ pc # "prompt"
       /\ mi <= Len(matches) /\ matches[mi].i = LastPromptLine
       /\ \A q \in mi..Len(matches) :
            /\ matches[q].i \notin replaced
            /\ lines[matches[q].i + 1] = matches[q].line
       /\ \A q \in 1..(mi - 1) :
            matches[q].i \in replaced => lines[matches[q].i + 1] = ReplacedText(q)
       /\ Finished => IF replaced # {}
                      THEN written /\ disk = JoinLines(lines)
                      ELSE ~written /\ disk = orig

\* C7: "quit" ends the replace loop at once: the match it answers and the later
\* matches are not changed and no later match is prompted; the replacements
\* made before it are kept and, if there are any, written at the end of the
\* session.
C7_QuitKeepsEarlier ==
    /\ []C7_State
    /\ [][("quit" \in answered /\ "quit" \in answered')
          => NumPrompts(out') = NumPrompts(out)]_vars

C7_Witness ==
    /\ config.query # <<>>
    /\ "quit" \in answered /\ pc = "return"
    /\ replaced # {} /\ written /\ disk = JoinLines(lines)
    /\ mi < Len(matches)

\* C8: "n", or an answer that is none of y, n, all, quit, changes no line, does
\* not mark the session changed, raises no error and moves the loop to the next
\* match.
C8_SkipOrMalformed ==
    [][(/\ Len(out') = Len(out) + 1
        /\ out'[Len(out')].k = "prompt"
        /\ input' # IoErr
        /\ Trim(input') \notin {"y", "all", "quit"})
       => /\ lines' = lines
          /\ changed' = changed
          /\ replaced' = replaced
          /\ disk' = disk
          /\ result' = result /\ err' = err
          /\ mi' = mi + 1
          /\ pc' = IF mi + 1 > Len(matches) THEN "save" ELSE "prompt"]_vars

C8_Witness ==
    /\ config.query # <<>>
    /\ input \in {"Y", ""} /\ pc = "prompt" /\ mi = 2
    /\ NumPrompts(out) = 1
    /\ ~changed /\ result = "running" /\ lines = SplitLines(orig)

\* C9: with --replace on a fetched document, the preview is what it is without
\* --replace, followed by the warning; no prompt is issued and nothing is written.
C9_UrlReplaceRefused ==
    /\ (sessUrl /\ config.replace)
       => /\ NumPrompts(out) = 0
          /\ ~written /\ ~changed
          /\ disk = orig /\ lines = SplitLines(orig)
          /\ Finished => out = Append(ExpectedPreview, Ev("warning", 0, <<>>))
    /\ (sessUrl /\ ~config.replace /\ Finished) => out = ExpectedPreview

C9_Witness ==
    /\ config.query # <<>>
    /\ sessUrl /\ config.replace /\ pc = "return"
    /\ Len(matches) >= 2
    /\ out[Len(out)].k = "warning"

\* C10: a session that runs to its end writes the file if and only if some match
\* was answered "y" or "all"; a file that is not written keeps its contents, and
\* without --replace nothing is written.
C10_WrittenIffApplied ==
    /\ written => (Applied /\ config.replace /\ ~sessUrl)
    /\ ~written => disk = orig
    /\ Finished => (written <=> Applied)

C10_Witness ==
    /\ config.query # <<>>
    /\ pc = "return" /\ written /\ "y" \in answered
    /\ disk = JoinLines(lines) /\ disk # orig

\* C11: the write is atomic: at every moment the file holds either the contents
\* read or the complete replaced contents, and a failed write ends the session
\* with a WriteError without the message that the file was saved.
C11_WriteIsAtomic ==
    /\ disk = orig \/ disk = JoinLines(lines)
    /\ err = "WriteError" => \A p \in 1..Len(out) : out[p].k # "saved"

C12_State ==
    /\ \A q \in 1..(Len(matches) - 1) : matches[q].i < matches[q + 1].i
    /\ \A p \in 1..Len(out) : \A r \in (p + 1)..Len(out) :
          /\ (out[p].k = "line" /\ out[r].k = "line") => out[p].i < out[r].i
          /\ (out[p].k = "prompt" /\ out[r].k = "prompt") => out[p].i < out[r].i
          /\ out[p].k = "prompt" => out[r].k \notin {"preview", "line", "sep", "truncated"}

\* C12: in a session the matches are in ascending line order, the preview prints
\* lines and the replace loop prompts and replaces in ascending line order, and
\* everything the preview prints comes before the first prompt.
C12_AscendingDisplayFirst ==
    /\ []C12_State
    /\ [][\A i \in replaced' \ replaced : \A j \in replaced : j < i]_vars

C12_Witness ==
    /\ config.query # <<>> /\ pc = "return"
    /\ NumPrompts(out) >= 2
    /\ Cardinality(replaced) >= 2
    /\ Cardinality({p \in 1..Len(out) : out[p].k = "line"}) >= 2

\* the preview loop has ended without a panic
Displayed == pc \in {"gate", "prompt", "save", "writing", "return"}

\* the replace loop has ended
LoopEnded == pc \in {"save", "writing", "return"} /\ config.replace /\ ~sessUrl

Count(o, kind) == Cardinality({p \in 1..Len(o) : o[p].k = kind})

PreviewKinds == {"preview", "line", "sep", "truncated"}

\* C13: with more matches than the cap max_lines, a completed display pass has emitted
\* exactly max_lines match blocks (each closed by its separator), then exactly one
\* truncation notice, and nothing of the preview after it: the loop has stopped at the
\* match at position max_lines; a replace loop that has ended with no "all" and no
\* "quit" answer has still prompted once for every match.
C13_CapStopsDisplayOnly ==
    (Len(matches) > max_lines /\ Displayed) =>
        /\ Count(out, "sep") = max_lines
        /\ Count(out, "truncated") = 1
        /\ \A t \in 1..Len(out) : out[t].k = "truncated" =>
              /\ t > 1 /\ out[t - 1].k = "sep"
              /\ \A r \in (t + 1)..Len(out) : out[r].k \notin PreviewKinds
        /\ lines_printed = max_lines
        /\ dk = max_lines + 1
        /\ (LoopEnded /\ answered \cap {"all", "quit"} = {}) =>
              NumPrompts(out) = Len(matches)

C13_Witness ==
    /\ config.query # <<>> /\ pc = "return"
    /\ Len(matches) > max_lines
    /\ LoopEnded /\ answered \cap {"all", "quit"} = {}
    /\ Count(out, "truncated") = 1
    /\ NumPrompts(out) = Len(matches)
    /\ replaced # {}

LinePositions(o) == {p \in 1..Len(o) : o[p].k = "line"}

\* C14: in the preview of a session no line index is printed twice, every printed index
\* is a line of the document, and the printed markers are exactly the printed indices,
\* for every context radius and in both overflow behaviours of the build.
C14_NoLinePrintedTwice ==
    /\ \A p \in LinePositions(out) :
          /\ 0 <= out[p].i /\ out[p].i < Len(lines)
          /\ \A r \in LinePositions(out) : r # p => out[r].i # out[p].i
    /\ \A i \in 0..(Len(printed) - 1) :
          printed[i + 1] <=> \E p \in LinePositions(out) : out[p].i = i

\* two matches whose windows overlap have both been shown
C14_Witness ==
    /\ config.query # <<>> /\ pc = "return"
    /\ config.context >= 1
    /\ dk >= 3
    /\ \E q \in 1..(Len(matches) - 1) : matches[q + 1].i = matches[q].i + 1
    /\ Cardinality(LinePositions(out)) = Len(lines)

StartsWith(s, m) == Len(s) >= Len(m) /\ SubSeq(s, 1, Len(m)) = m

Drop(s, n) == SubSeq(s, n + 1, Len(s))

\* h with the start and end markers removed
RECURSIVE Strip(_)
Strip(h) ==
    IF h = <<>> THEN <<>>
    ELSE IF StartsWith(h, HL_START) THEN Strip(Drop(h, Len(HL_START)))
    ELSE IF StartsWith(h, HL_END) THEN Strip(Drop(h, Len(HL_END)))
    ELSE <<h[1]>> \o Strip(Tail(h))

\* the text of h up to the next end marker
RECURSIVE UpToEnd(_)
UpToEnd(h) ==
    IF h = <<>> \/ StartsWith(h, HL_END) THEN <<>> ELSE <<h[1]>> \o UpToEnd(Tail(h))

\* the marked substrings of h, in order
RECURSIVE Marked(_)
Marked(h) ==
    IF h = <<>> THEN <<>>
    ELSE IF StartsWith(h, HL_START)
         THEN LET m == UpToEnd(Drop(h, Len(HL_START)))
              IN  <<m>> \o Marked(Drop(h, Len(HL_START) + Len(m)))
         ELSE Marked(Tail(h))

\* C15: for every line L and non-empty query Q, in both case modes,
\* highlight_all_matches(L, Q) returns a string that is L once the markers are
\* removed, and each marked substring has the length of Q and is an occurrence of Q
\* under the active case mode.
C15_HighlightKeepsLine ==
    (fn.pc = "shown" /\ fn.Q # <<>>) =>
        /\ IsStr(fn.h)
        /\ Strip(fn.h) = fn.L
        /\ \A k \in 1..Len(Marked(fn.h)) :
              /\ Len(Marked(fn.h)[k]) = Len(fn.Q)
              /\ Folded(Marked(fn.h)[k], fn.ic) = Folded(fn.Q, fn.ic)

\* h with every marked span, markers included, replaced by r
RECURSIVE Substitute(_, _)
Substitute(h, r) ==
    IF h = <<>> THEN <<>>
    ELSE IF StartsWith(h, HL_START)
         THEN LET m == UpToEnd(Drop(h, Len(HL_START)))
              IN  r \o Substitute(Drop(h, Len(HL_START) + Len(m) + Len(HL_END)), r)
         ELSE <<h[1]>> \o Substitute(Tail(h), r)

\* the start offsets in the line of the marked spans of h; off is the offset of h[1]
RECURSIVE SpanStarts(_, _)
SpanStarts(h, off) ==
    IF h = <<>> THEN <<>>
    ELSE IF StartsWith(h, HL_START)
         THEN LET m == UpToEnd(Drop(h, Len(HL_START)))
              IN  <<off>> \o SpanStarts(Drop(h, Len(HL_START) + Len(m) + Len(HL_END)),
                                        off + Len(m))
         ELSE SpanStarts(Tail(h), off + 1)

\* C16: for every line, non-empty query and case mode, the spans that
\* highlight_all_matches wraps are the spans that replace_all_matches substitutes
\* (putting the replacement in place of each wrapped span gives the replaced line, and
\* one call panics exactly when the other does); the spans have the length of the
\* query, and each starts at or after the end of the one before it.
C16_SameSpans ==
    (fn.pc = "both" /\ fn.Q # <<>>) =>
        /\ fn.r1 # Diverge /\ fn.h # Diverge
        /\ fn.h = Panic <=> fn.r1 = Panic
        /\ IsStr(fn.h) =>
              /\ Substitute(fn.h, fn.R) = fn.r1
              /\ \A k \in 1..Len(Marked(fn.h)) : Len(Marked(fn.h)[k]) = Len(fn.Q)
              /\ LET st == SpanStarts(fn.h, 0)
                 IN  \A k \in 1..(Len(st) - 1) : st[k] + Len(fn.Q) <= st[k + 1]

C16_Witness ==
    /\ fn.pc = "both" /\ fn.Q # <<>> /\ fn.ic /\ fn.R # <<>>
    /\ IsStr(fn.h) /\ IsStr(fn.r1)
    /\ Len(Marked(fn.h)) >= 2
    /\ Marked(fn.h)[1] # fn.Q
    /\ fn.r1 # fn.L

\* the end offsets e of the occurrences of q that start at offset p of s: s[p..e) is
\* whole characters and equals q under the case mode
OccurrenceEnds(s, p, q, ignore_case) ==
    {e \in (p + 1)..Len(s) :
        /\ is_char_boundary(s, e)
        /\ Folded(SubSeq(s, p + 1, e), ignore_case) = Folded(q, ignore_case)}

\* s from offset p on, with every leftmost-first, non-overlapping occurrence of q
\* replaced by r and everything else copied through
RECURSIVE ReplacedFrom(_, _, _, _, _)
ReplacedFrom(s, p, q, r, ignore_case) ==
    IF p >= Len(s) THEN <<>>
    ELSE LET ends == OccurrenceEnds(s, p, q, ignore_case)
             w    == CharWidth(Drop(s, p))
         IN  IF ends # {}
             THEN r \o ReplacedFrom(s, CHOOSE e \in ends : \A x \in ends : e <= x,
                                    q, r, ignore_case)
             ELSE SubSeq(s, p + 1, p + w) \o ReplacedFrom(s, p + w, q, r, ignore_case)

\* C17: for a non-empty query, replace_all_matches(L, Q, R, ignoreCase) is L with
\* every leftmost-first, non-overlapping occurrence of Q (compared case-folded when
\* ignoreCase) replaced by R and every other span copied through unchanged.
C17_ReplacesEveryOccurrence ==
    (fn.pc = "once" /\ fn.Q # <<>>) => fn.r1 = ReplacedFrom(fn.L, 0, fn.Q, fn.R, fn.ic)

\* the state a session starts in, as a function of the file it reads alone
FreshSession ==
    /\ disk = orig
    /\ lines = SplitLines(orig)
    /\ printed = [k \in 1..Len(lines) |-> FALSE]
    /\ lines_printed = 0 /\ dk = 1 /\ mi = 1
    /\ ~replace_all /\ ~changed /\ ~written
    /\ answered = {} /\ replaced = {}
    /\ out = <<Ev("preview", 0, <<>>)>>

\* C18: an apply-all answer does not carry over to a later file: the first match of
\* every session is prompted, whatever was answered in the sessions before it, and
\* every session starts from the file it reads alone (printed markers, dirty flag,
\* lines, apply-all flag).
C18_FreshSessions ==
    /\ []((pc = "prompt" /\ mi = 1) => Prompts)
    /\ []((LoopEnded /\ matches # <<>>) =>
            \E p \in 1..Len(out) : out[p].k = "prompt" /\ out[p].i = matches[1].i)
    /\ [][(pc \in {"run", "entries"} /\ pc' \in {"display", "gate"}) => FreshSession']_vars

C18_Witness ==
    /\ config.query # <<>> /\ config.search_all /\ config.replace
    /\ allBefore /\ entries = 2
    /\ pc = "return"
    /\ NumPrompts(out) >= 1

\* C19: for every document, query (the empty one included), case mode and sequence of
\* answers, no call of highlight_all_matches or replace_all_matches runs forever, and
\* the replace loop issues at most one prompt per match.
C19_CallsTerminate ==
    /\ pc # "hung" /\ result # "hang"
    /\ NumPrompts(out) <= Len(matches)

\* C20: each line index occurs at most once in matches, so whenever the replace loop
\* is at a match (about to prompt for it, or to replace it under "all"), the snapshot
\* text of the match is the current text of its line and the line has not been through
\* replace_all_matches in this session.
C20_SnapshotIsCurrent ==
    /\ \A p \in 1..Len(matches) : \A q \in 1..Len(matches) :
          p # q => matches[p].i # matches[q].i
    /\ (pc = "prompt" /\ mi <= Len(matches)) =>
          /\ lines[matches[mi].i + 1] = matches[mi].line
          /\ matches[mi].i \notin replaced
    /\ \A q \in 1..Len(matches) :
          matches[q].i \notin replaced => lines[matches[q].i + 1] = matches[q].line

C20_Witness ==
    /\ config.query # <<>>
    /\ pc = "prompt" /\ mi = 2 /\ mi <= Len(matches)
    /\ replaced # {} /\ changed
    /\ lines[matches[1].i + 1] # matches[1].line

====
